---- MODULE Spec2Model ----
(***************************************************************************)
(* Model of backend/server.py: one POST /search request travelling through *)
(* smart_search, strong_sources, the zero-qualified fallback,              *)
(* summarize_with_claude and the exception mapping of the /search handler. *)
(*                                                                         *)
(* Data abstraction.  A link is a pair <<domain, n>>; "d in link" (the     *)
(* substring test of strong_sources) is  link[1] = d.  A missing or empty  *)
(* value (None or "") is None.  Page content is a record [kind, len]: only *)
(* its length and whether it is the "[Fetch error for ...]" placeholder    *)
(* are read by the code under study.  The search provider's index is the   *)
(* sequence web, listed in order of first appearance of each link: the     *)
(* provider may return, item by item, the next unseen entry, any entry     *)
(* already seen, or an item without a link.                                *)
(***************************************************************************)
EXTENDS Integers, Sequences, FiniteSets, TLC

VARIABLES
    pc,           \* position of the request in the pipeline
    k,            \* SearchRequest.k
    sk,           \* the k argument of smart_search
    web,          \* the search provider's index (environment)
    qi,           \* smart_search: index of the query variant in progress
    ri,           \* smart_search: items of this variant already processed
    seen,         \* smart_search: seen
    items,        \* smart_search: items
    skipped,      \* smart_search: why items were skipped so far (history)
    results,      \* agentic_search: results (smart_search's return value)
    sources,      \* strong_sources: sources / agentic_search: sources
    ci,           \* strong_sources: index of the next candidate r
    usedFallback, \* agentic_search took the "if not sources" branch
    fetched,      \* fetch_text calls so far, in call order: [link, content]
    llmCalls,     \* number of claude.messages.create calls
    synthSources, \* the sources argument of summarize_with_claude
    response      \* what the /search handler delivers to the client

vars == <<pc, k, sk, web, qi, ri, seen, items, skipped, results, sources, ci,
          usedFallback, fetched, llmCalls, synthSources, response>>

(*************************** bounds of the model ***************************)
MaxK == 2
NegK == 1
MaxLinks == 3
MaxPerQuery == 3
MaxSearchK == 11

Ks == (0 - NegK)..MaxK
SearchKs == 1..MaxSearchK

(***************************** small helpers ******************************)
Min(a, b) == IF a <= b THEN a ELSE b
Max(a, b) == IF a >= b THEN a ELSE b

None == <<>>
Truthy(x) == x # None

(**************************** program constants ***************************)
AUTHORITATIVE_HINTS ==
    <<"site:wikipedia.org", "site:britannica.com", "site:new7wonders.com",
      "site:nationalgeographic.com", "site:unesco.org">>

WHITELIST_DOMAINS ==
    {"wikipedia.org", "britannica.com", "new7wonders.com",
     "nationalgeographic.com", "unesco.org"}

\* queries = [query, "... official list", "... locations"] + one per hint
NumQueries == 3 + Len(AUTHORITATIVE_HINTS)

\* fetch_text(url, max_chars = 30_000)
max_chars == 30000

\* len(content) >= 800
UsefulLen == 800

\* len("[Fetch error for ") + len(": ") + len("]")
PlaceholderFrame == 20

\* SearchRequest.k default
DefaultK == 6

(******************************* environment ******************************)
Domains == {"wikipedia.org", "example.com"}

Title(n) == <<"title", n>>

\* The n-th entry of a provider index: its link is new, its title may be missing.
WebItem(n, dom, titled) ==
    [title |-> IF titled THEN Title(n) ELSE None, link |-> <<dom, n>>]

RECURSIVE SeqsOver(_, _)
SeqsOver(n, S) ==
    IF n = 0 THEN {<<>>}
    ELSE {Append(s, x) : s \in SeqsOver(n - 1, S), x \in S}

\* Indexes of the pipeline runs: MaxLinks entries, every domain/title pattern.
PipelineWebs ==
    {[n \in 1..MaxLinks |-> WebItem(n, p[n][1], p[n][2])] :
        p \in SeqsOver(MaxLinks, Domains \X BOOLEAN)}

\* An item whose link is missing (None or "").
LinklessItem == [title |-> Title(0), link |-> None]

(****************************** smart_search ******************************)
\* google_search_once: num = min(num_results, 10) caps what one call returns.
ProviderMax(num_results) == Min(num_results, 10)

\* budget = max(12, k * 2)
Budget(kk) == Max(12, kk * 2)

\* "if not link or link in seen: continue"
SkipItemNoSeen(link, seenLinks) == ~Truthy(link)
SkipItem(link, seenLinks) == ~Truthy(link) \/ link \in seenLinks

\* "if len(items) >= budget: break" (inner loop, repeated after it)
BudgetReachedLate(its, kk) == Len(its) > Budget(kk)
BudgetReached(its, kk) == Len(its) >= Budget(kk)

\* s[:n] of Python, for any integer n
PySliceToOneMore(s, n) == SubSeq(s, 1, Min(n + 1, Len(s)))
PySliceTo(s, n) ==
    IF n >= 0 THEN SubSeq(s, 1, Min(n, Len(s)))
    ELSE SubSeq(s, 1, Max(0, Len(s) + n))

\* good = [it for it in items if it.get("title") and it.get("link")]
RECURSIVE Good(_)
Good(its) ==
    IF its = <<>> THEN <<>>
    ELSE IF Truthy(Head(its).title) /\ Truthy(Head(its).link)
         THEN <<Head(its)>> \o Good(Tail(its))
         ELSE Good(Tail(its))

\* return good[:max(10, k)]
SmartSearchReturn(its, kk) == PySliceTo(Good(its), Max(10, kk))

\* What the provider may hand back as the next item of a result page.
ProviderItems ==
    {web[n] : n \in 1..Min(Cardinality(seen) + 1, Len(web))} \cup {LinklessItem}

\* One iteration of "for it in results" (lines 105-112); when the budget is
\* reached both loops are left and the function returns (lines 113-118).
smart_search_item ==
    /\ pc = "search"
    /\ ri < Min(MaxPerQuery, ProviderMax(10))
    /\ \E it \in ProviderItems :
         IF SkipItem(it.link, seen)
         THEN /\ ri' = ri + 1
              /\ skipped' = skipped \cup
                     {IF Truthy(it.link) THEN "seen" ELSE "no link"}
              /\ UNCHANGED <<pc, seen, items, results, qi>>
         ELSE /\ seen' = seen \cup {it.link}
              /\ items' = Append(items, it)
              /\ UNCHANGED skipped
              /\ IF BudgetReached(items', sk)
                 THEN /\ results' = SmartSearchReturn(items', sk)
                      /\ pc' = "searched"
                      /\ UNCHANGED <<qi, ri>>
                 ELSE /\ ri' = ri + 1
                      /\ UNCHANGED <<pc, results, qi>>
    /\ UNCHANGED <<k, sk, web, sources, ci, usedFallback, fetched, llmCalls,
                   synthSources, response>>

\* The result page of the current variant is exhausted: next variant, or,
\* after the last one, the filter and the return (lines 103, 116-118).
smart_search_next_query ==
    /\ pc = "search"
    /\ IF qi < NumQueries
       THEN /\ qi' = qi + 1
            /\ ri' = 0
            /\ UNCHANGED <<pc, results>>
       ELSE /\ results' = SmartSearchReturn(items, sk)
            /\ pc' = "searched"
            /\ UNCHANGED <<qi, ri>>
    /\ UNCHANGED <<k, sk, web, seen, items, skipped, sources, ci,
                   usedFallback, fetched, llmCalls, synthSources, response>>

\* Indexes of the stand-alone smart_search runs: long enough to pass the
\* largest budget, at most one entry without a title.
SearchWebLen == Budget(MaxSearchK) + 1
SearchWebs ==
    {[n \in 1..SearchWebLen |-> WebItem(n, "example.com", n # u)] :
        u \in 0..SearchWebLen}

NoResponse == [status |-> 0, cause |-> "none", sources |-> <<>>]

\* smart_search(query, k) called on its own, for k in SearchKs.
SearchInit ==
    /\ pc = "search"
    /\ k = DefaultK
    /\ sk \in SearchKs
    /\ web \in SearchWebs
    /\ qi = 1 /\ ri = 0 /\ seen = {} /\ items = <<>> /\ skipped = {}
    /\ results = <<>> /\ sources = <<>> /\ ci = 1 /\ usedFallback = FALSE
    /\ fetched = <<>> /\ llmCalls = 0 /\ synthSources = <<>>
    /\ response = NoResponse

SearchNext == smart_search_item \/ smart_search_next_query

SearchSpec == SearchInit /\ [][SearchNext]_vars

(******************************* fetch_text *******************************)
TextContent(n) == [kind |-> "text", len |-> n]
ErrorContent(n) == [kind |-> "error", len |-> n]

\* What the network may do to one fetch_text call.  primary: length of the
\* stripped text trafilatura extracts (0: nothing downloaded, None or blank).
\* fallback: length of the text of the requests + BeautifulSoup path, or
\* "raise" when that path throws; errLen: len(url) + len(str(e)) then.
FetchOutcomes ==
    [primary : {0, 800, 40000}, fallback : {0, 799}, raises : {FALSE},
     errLen : {0}]
    \cup
    [primary : {0}, fallback : {0}, raises : {TRUE}, errLen : {40, 900}]

\* fetch_text(url): never raises, a failure becomes the placeholder string.
fetch_text(url, o) ==
    IF o.primary > 0 THEN TextContent(Min(o.primary, max_chars))
    ELSE IF o.raises THEN ErrorContent(PlaceholderFrame + o.errLen)
    ELSE TextContent(Min(o.fallback, max_chars))

(***************************** strong_sources *****************************)
\* "d in link": the link contains the domain string d
Contains(link, d) == link[1] = d

\* is_whitelisted = any(d in (link or "") for d in WHITELIST_DOMAINS)
is_whitelisted(link) == \E d \in WHITELIST_DOMAINS : Contains(link, d)

\* long_enough = content and len(content) >= 800
long_enoughNonEmpty(content) == content.len > 0
long_enough(content) == content.len > 0 /\ content.len >= UsefulLen

\* "if is_whitelisted or long_enough"
Qualifies(link, content) == is_whitelisted(link) \/ long_enough(content)

\* "if len(sources) >= k: break"
CollectedLate(srcs, kk) == Len(srcs) > kk
Collected(srcs, kk) == Len(srcs) >= kk

\* r.get("title") or "Untitled"
TitleOrUntitled(r) == IF Truthy(r.title) THEN r.title ELSE <<"Untitled", 0>>

\* One iteration of "for r in results" of strong_sources (lines 157-170);
\* leaving the loop returns sources (line 172).
strong_sources_step ==
    /\ pc = "qualify"
    /\ ci <= Len(results)
    /\ LET r == results[ci]
           last == ci = Len(results)
       IN  IF ~Truthy(r.link)
           THEN \* "if not link: continue"
                /\ pc' = IF last THEN "qualified" ELSE "qualify"
                /\ UNCHANGED <<sources, fetched>>
           ELSE \E o \in FetchOutcomes :
                  LET content == fetch_text(r.link, o)
                      kept == IF Qualifies(r.link, content)
                              THEN Append(sources,
                                          [title |-> TitleOrUntitled(r),
                                           link |-> r.link,
                                           content |-> content])
                              ELSE sources
                  IN  /\ fetched' = Append(fetched, [link |-> r.link,
                                                     content |-> content])
                      /\ sources' = kept
                      /\ pc' = IF Collected(kept, k) \/ last
                               THEN "qualified" ELSE "qualify"
    /\ ci' = ci + 1
    /\ UNCHANGED <<k, sk, web, qi, ri, seen, items, skipped, results,
                   usedFallback, llmCalls, synthSources, response>>

(***************************** agentic_search *****************************)
\* The k agentic_search passes to smart_search (line 224).
SearchK(kk) == Max(10, kk * 2)

\* try/except of the /search handler (lines 271-278): APIStatusError is
\* mapped to 502; every other exception, HTTPException included, to 500.
HandlerStatus(exc) == IF exc = "APIStatusError" THEN 502 ELSE 500

Failure(exc, cause) ==
    [status |-> HandlerStatus(exc), cause |-> cause, sources |-> <<>>]

\* [{"title": s["title"], "link": s["link"]} for s in sources]
SlimKeepsContent(srcs) == srcs
Slim(srcs) ==
    [i \in 1..Len(srcs) |-> [title |-> srcs[i].title, link |-> srcs[i].link]]

\* The fallback takes results[:k].
FallbackCandidatesAll(rs, kk) == rs
FallbackCandidatesShort(rs, kk) == PySliceTo(rs, kk - 1)
FallbackCandidates(rs, kk) == PySliceTo(rs, kk)

\* search() calls agentic_search, which calls smart_search (lines 272, 224).
agentic_search_call ==
    /\ pc = "request"
    /\ sk' = SearchK(k)
    /\ pc' = "search"
    /\ UNCHANGED <<k, web, qi, ri, seen, items, skipped, results, sources, ci,
                   usedFallback, fetched, llmCalls, synthSources, response>>

\* google_search_once raises (provider error): nothing catches it before
\* the handler's "except Exception".
search_provider_error ==
    /\ pc = "search"
    /\ response' = Failure("Exception", "provider")
    /\ pc' = "done"
    /\ UNCHANGED <<k, sk, web, qi, ri, seen, items, skipped, results, sources,
                   ci, usedFallback, fetched, llmCalls, synthSources>>

\* "if not results: raise HTTPException(status_code=400, ...)" (line 225-226);
\* the exception passes through the handler's except clauses.  The locals
\* of smart_search are gone once it has returned.
agentic_search_check_results ==
    /\ pc = "searched"
    /\ IF results = <<>>
       THEN /\ response' = Failure("HTTPException", "no_results")
            /\ pc' = "done"
       ELSE /\ pc' = "qualify"
            /\ UNCHANGED response
    /\ qi' = 1 /\ ri' = 0 /\ seen' = {} /\ items' = <<>> /\ skipped' = {}
    /\ UNCHANGED <<k, sk, web, results, sources, ci, usedFallback, fetched,
                   llmCalls, synthSources>>

\* "if not sources:" after strong_sources returned (line 230).
agentic_search_check_sources ==
    /\ pc = "qualified"
    /\ IF sources = <<>>
       THEN /\ usedFallback' = TRUE
            /\ pc' = IF FallbackCandidates(results, k) = <<>>
                     THEN "summarize" ELSE "fallback"
       ELSE /\ pc' = "summarize"
            /\ UNCHANGED usedFallback
    /\ UNCHANGED <<k, sk, web, qi, ri, seen, items, skipped, results, sources,
                   ci, fetched, llmCalls, synthSources, response>>

\* One element of the fallback comprehension (lines 231-235).
fallback_step ==
    /\ pc = "fallback"
    /\ LET cands == FallbackCandidates(results, k)
           r == cands[Len(sources) + 1]
       IN  \E o \in FetchOutcomes :
             LET content == fetch_text(r.link, o)
             IN  /\ sources' = Append(sources,
                                      [title |-> r.title, link |-> r.link,
                                       content |-> content])
                 /\ fetched' = Append(fetched, [link |-> r.link,
                                                content |-> content])
                 /\ pc' = IF Len(sources') = Len(cands)
                          THEN "summarize" ELSE "fallback"
    /\ UNCHANGED <<k, sk, web, qi, ri, seen, items, skipped, results, ci,
                   usedFallback, llmCalls, synthSources, response>>

\* summarize_with_claude(sources, query) and the return of the slim list
\* (lines 238-241, 273), or the LLM call failing (lines 274-278).
summarize ==
    /\ pc = "summarize"
    /\ synthSources' = sources
    /\ llmCalls' = llmCalls + 1
    /\ \E outcome \in {"ok", "APIStatusError", "Exception"} :
         response' = IF outcome = "ok"
                     THEN [status |-> 200, cause |-> "none",
                           sources |-> Slim(sources)]
                     ELSE Failure(outcome, "llm")
    /\ pc' = "done"
    /\ UNCHANGED <<k, sk, web, qi, ri, seen, items, skipped, results, sources,
                   ci, usedFallback, fetched>>

Init ==
    /\ pc = "request"
    /\ k \in Ks
    /\ sk = 0
    /\ web \in PipelineWebs
    /\ qi = 1 /\ ri = 0 /\ seen = {} /\ items = <<>> /\ skipped = {}
    /\ results = <<>> /\ sources = <<>> /\ ci = 1 /\ usedFallback = FALSE
    /\ fetched = <<>> /\ llmCalls = 0 /\ synthSources = <<>>
    /\ response = NoResponse

Next ==
    \/ agentic_search_call
    \/ smart_search_item
    \/ smart_search_next_query
    \/ search_provider_error
    \/ agentic_search_check_results
    \/ strong_sources_step
    \/ agentic_search_check_sources
    \/ fallback_step
    \/ summarize

Spec == Init /\ [][Next]_vars

(********************************* claims *********************************)
Whitelisted(link) == link[1] \in WHITELIST_DOMAINS

InStrongSources == pc \in {"qualify", "qualified"}

Synthesized == llmCalls >= 1

\* No candidate is on a trusted domain and no fetch so far returned 800
\* characters or more: nothing passes the quality filter.
NoCandidatePasses ==
    /\ \A i \in 1..Len(results) : ~Whitelisted(results[i].link)
    /\ \A i \in 1..Len(fetched) : fetched[i].content.len < 800

\* C1: when every query variant yields no usable result, the /search handler
\* answers 400.  (The HTTPException(400) raised by agentic_search is caught by
\* the handler's own "except Exception" and re-raised as 500.)
C1_NoResultsIs400 ==
    response.cause = "no_results" => response.status = 400

\* C2: every entry of the list strong_sources builds and returns has a link
\* on a whitelisted domain or fetched content of length >= 800.
C2_StrongSourcesQualified ==
    (InStrongSources \/ (pc \in {"summarize", "done"} /\ ~usedFallback)) =>
        \A i \in 1..Len(sources) :
            Whitelisted(sources[i].link) \/ sources[i].content.len >= 800

C2_Witness ==
    /\ pc = "qualified"
    /\ Len(fetched) > Len(sources)
    /\ \E i, j \in 1..Len(sources) :
         /\ Whitelisted(sources[i].link) /\ sources[i].content.len < 800
         /\ ~Whitelisted(sources[j].link) /\ sources[j].content.len >= 800

\* C3 as stated: on the fallback path the sources are exactly the first
\* min(k, n) candidates, for every integer k.
C3_FallbackIsMinKN ==
    (usedFallback /\ NoCandidatePasses /\ pc \in {"summarize", "done"}) =>
        /\ Len(sources) = Min(k, Len(results))
        /\ \A i \in 1..Len(sources) : sources[i].link = results[i].link

\* C3 amended: on the fallback path the sources are the first min(k, n)
\* candidates when k >= 0 and the first max(0, n + k) candidates when k < 0
\* (results[:k] drops the last -k), in candidate order.
C3_FallbackIsPythonSlice ==
    (usedFallback /\ pc \in {"summarize", "done"}) =>
        /\ Len(sources) = IF k >= 0 THEN Min(k, Len(results))
                          ELSE Max(0, Len(results) + k)
        /\ \A i \in 1..Len(sources) :
             /\ sources[i].link = results[i].link
             /\ sources[i].title = results[i].title

C3_Witness ==
    /\ pc = "summarize"
    /\ usedFallback /\ NoCandidatePasses
    /\ k >= 1 /\ Len(results) > k /\ Len(sources) = k

\* C4: at every point of smart_search and in its return value no link occurs
\* twice, and no item without a link is ever in the merged list.
C4_Dedup ==
    /\ \A i, j \in 1..Len(items) : i # j => items[i].link # items[j].link
    /\ \A i \in 1..Len(items) : items[i].link # None
    /\ \A i, j \in 1..Len(results) : i # j => results[i].link # results[j].link
    /\ \A i \in 1..Len(results) : results[i].link # None

C4_Witness ==
    /\ pc = "searched"
    /\ skipped = {"seen", "no link"}
    /\ Len(results) >= 3

\* C5: the merged list never holds more than max(12, 2k) items and the
\* returned list never more than max(10, k).
C5_Budget ==
    /\ Len(items) <= Max(12, 2 * sk)
    /\ pc = "searched" => Len(results) <= Max(10, sk)

C5_Witness ==
    /\ pc = "searched"
    /\ sk > 10
    /\ Len(items) = 2 * sk
    /\ Len(results) = sk
    /\ \A i \in 1..Len(items) : Truthy(items[i].title)

\* C6: the slim list returned to the client is, position by position, the
\* {title, link} projection of the list given to the synthesizer.
C6_SlimProjection ==
    response.status = 200 =>
        /\ Len(response.sources) = Len(synthSources)
        /\ \A i \in 1..Len(synthSources) :
             /\ response.sources[i].title = synthSources[i].title
             /\ response.sources[i].link = synthSources[i].link
             /\ DOMAIN response.sources[i] = {"title", "link"}

C6_Witness ==
    /\ response.status = 200
    /\ Len(response.sources) >= 2
    /\ response.sources[1].title # response.sources[2].title

\* C7 as stated, for the requests with k >= 0: with at least one candidate
\* the synthesizer gets a non-empty source list.
C7_NonEmptyForAnyK ==
    (Synthesized /\ Len(results) >= 1 /\ k >= 0) => synthSources # <<>>

\* C7 amended: with at least one candidate and k >= 1 the synthesizer gets a
\* non-empty source list whatever the fetches return; and whatever k is, a
\* request with a candidate always reaches the synthesizer (no fetch outcome
\* ends it before).
C7_NonEmptyForPositiveK ==
    /\ (Synthesized /\ Len(results) >= 1 /\ k >= 1) => synthSources # <<>>
    /\ (pc = "done" /\ Len(results) >= 1) => Synthesized

C7_Witness ==
    /\ pc = "done"
    /\ k >= 1
    /\ Len(fetched) >= 2
    /\ \A i \in 1..Len(fetched) : fetched[i].content.kind = "error"
    /\ synthSources # <<>>
    /\ \A i \in 1..Len(synthSources) : synthSources[i].content.kind = "error"

\* Position of a link in the candidate list.
CandidateIndex(link) ==
    CHOOSE n \in 1..Len(results) : results[n].link = link

FetchedInListOrder ==
    /\ Len(fetched) <= Len(results)
    /\ \A i \in 1..Len(fetched) : fetched[i].link = results[i].link

SourcesAreSubsequence ==
    /\ \A i \in 1..Len(sources) :
         \E n \in 1..Len(results) : results[n].link = sources[i].link
    /\ \A i, j \in 1..Len(sources) :
         i < j => CandidateIndex(sources[i].link) < CandidateIndex(sources[j].link)

\* C8 as stated, for the requests with k >= 0: candidates are fetched in
\* list order and the result is an order-preserving subsequence of at most k
\* entries.
C8_AtMostK ==
    (InStrongSources /\ k >= 0) =>
        /\ FetchedInListOrder
        /\ SourcesAreSubsequence
        /\ Len(sources) <= k

\* C8 amended: candidates are fetched in list order and the result is an
\* order-preserving subsequence of at most max(k, 1) entries; the candidate
\* that completes it is the last one fetched; for k <= 0 exactly the first
\* candidate is fetched (the size test follows the fetch).
C8_AtMostMaxK1 ==
    InStrongSources =>
        /\ FetchedInListOrder
        /\ SourcesAreSubsequence
        /\ Len(sources) <= Max(k, 1)
        /\ Len(sources) >= Max(k, 1) =>
             fetched[Len(fetched)].link = sources[Len(sources)].link
        /\ k <= 0 => Len(fetched) <= 1

C8_Witness ==
    /\ pc = "qualified"
    /\ k >= 1
    /\ Len(sources) = k
    /\ Len(fetched) > Len(sources)
    /\ Len(fetched) < Len(results)

\* C9: a candidate off the whitelist whose fetch returned the error
\* placeholder is never included by strong_sources, whatever its length.
C9_PlaceholderNeverQualifies ==
    InStrongSources =>
        \A i \in 1..Len(sources) :
            sources[i].content.kind = "error" => Whitelisted(sources[i].link)

====
